---- MODULE Spec2Model ----
(***************************************************************************)
(* State-machine model of the_snake.py: the Snake and Apple objects and    *)
(* the main loop (handle_keys -> move -> apple check), one action per      *)
(* step of the loop.  Coordinates are pixel coordinates, as in the code.   *)
(*                                                                         *)
(* The board is scaled down: the code has SCREEN_WIDTH = 640 and           *)
(* SCREEN_HEIGHT = 480 with GRID_SIZE = 20 (32 x 24 cells); the model      *)
(* keeps GRID_SIZE and takes 2*HalfGridWidth x 2*HalfGridHeight cells.     *)
(* Both dimensions stay even, as in the code, so that the centre           *)
(* (SCREEN_WIDTH // 2, SCREEN_HEIGHT // 2) is a grid cell.                 *)
(***************************************************************************)
EXTENDS Integers, Sequences, FiniteSets

VARIABLES
    positions,   \* Snake.positions: list of cells, head first
    length,      \* Snake.length: target length of the body
    direction,   \* Snake.direction
    position,    \* Snake.position (attribute inherited from GameObject)
    apple,       \* Apple.position
    events,      \* the rest of the list pygame.event.get() returned, still to iterate
    pc,          \* position of main(): "loop", "keys", "move", "apple", "exit"
    collided     \* the last move() of this tick took the reset branch

vars == <<positions, length, direction, position, apple, events, pc, collided>>

snake == <<positions, length, direction, position>>

----------------------------------------------------------------------------
(* Bounds of the model *)

HalfGridWidth == 2
HalfGridHeight == 2
\* the loop is explored while Snake.length <= MaxLength
MaxLength == 4
\* at most MaxEvents events are pending when handle_keys polls
MaxEvents == 2
\* SpecQueue, which fixes the content of the event list when it is polled,
\* explores the loop while Snake.length <= MaxQueueLength
MaxQueueLength == 1

----------------------------------------------------------------------------
(* Module constants, the_snake.py lines 5-13 *)

GRID_SIZE == 20
SCREEN_WIDTH == 2 * HalfGridWidth * GRID_SIZE
SCREEN_HEIGHT == 2 * HalfGridHeight * GRID_SIZE
GRID_WIDTH == SCREEN_WIDTH \div GRID_SIZE
GRID_HEIGHT == SCREEN_HEIGHT \div GRID_SIZE

UP == <<0, -GRID_SIZE>>
DOWN == <<0, GRID_SIZE>>
LEFT == <<-GRID_SIZE, 0>>
RIGHT == <<GRID_SIZE, 0>>

Directions == {UP, DOWN, LEFT, RIGHT}

\* the cells of the board, in pixel coordinates
BoardCells ==
    {<<cx * GRID_SIZE, cy * GRID_SIZE>> : cx \in 0..(GRID_WIDTH - 1), cy \in 0..(GRID_HEIGHT - 1)}

\* (SCREEN_WIDTH // 2, SCREEN_HEIGHT // 2)
Center == <<SCREEN_WIDTH \div 2, SCREEN_HEIGHT \div 2>>

----------------------------------------------------------------------------
(* Events of pygame.event.get(), as handle_keys tells them apart *)

K_UP == "K_UP"
K_DOWN == "K_DOWN"
K_LEFT == "K_LEFT"
K_RIGHT == "K_RIGHT"
K_OTHER == "K_OTHER"

QuitEvent == [type |-> "QUIT", key |-> "none"]
KeyDown(k) == [type |-> "KEYDOWN", key |-> k]
OtherEvent == [type |-> "OTHER", key |-> "none"]

ArrowKeys == {K_UP, K_DOWN, K_LEFT, K_RIGHT}

Events == {QuitEvent, OtherEvent} \cup {KeyDown(k) : k \in ArrowKeys \cup {K_OTHER}}

\* the event lists pygame.event.get() may return
EventSeqs == UNION {[1..n -> Events] : n \in 0..MaxEvents}

\* an element of the returned list whose content is settled when the for
\* loop reaches it
Unread == [type |-> "UNREAD", key |-> "none"]

\* the same lists with only their length settled
UnreadSeqs == {[i \in 1..n |-> Unread] : n \in 0..MaxEvents}

\* the events the for loop may find at an element of the list
Resolve(e) == IF e = Unread THEN Events ELSE {e}

----------------------------------------------------------------------------
(* Apple *)

\* fault variant: the upper bounds of random.randint lack the "- 1"
RandomPositions_Inclusive ==
    {<<rx * GRID_SIZE, ry * GRID_SIZE>> :
        rx \in 0..(SCREEN_WIDTH \div GRID_SIZE),
        ry \in 0..(SCREEN_HEIGHT \div GRID_SIZE)}

\* Apple.randomize_position: the positions the two random.randint draws give
RandomPositions ==
    {<<rx * GRID_SIZE, ry * GRID_SIZE>> :
        rx \in 0..((SCREEN_WIDTH \div GRID_SIZE) - 1),
        ry \in 0..((SCREEN_HEIGHT \div GRID_SIZE) - 1)}

----------------------------------------------------------------------------
(* Snake *)

\* (new_direction[0] * -1, new_direction[1] * -1)
Negated(d) == <<d[1] * (-1), d[2] * (-1)>>

\* fault variant: the reversal test is missing
UpdateDirection_NoCheck(cur, new_direction) == new_direction

\* Snake.update_direction: the direction after the call
UpdateDirection(cur, new_direction) ==
    IF Negated(new_direction) # cur THEN new_direction ELSE cur

\* Snake.get_head_position
GetHeadPosition(pos) == pos[1]

\* fault variant: the new head is not wrapped around the screen
NewHeadPosition_NoWrap(pos, dir) ==
    <<GetHeadPosition(pos)[1] + dir[1], GetHeadPosition(pos)[2] + dir[2]>>

\* move(), lines 111-119: head plus direction, wrapped around the screen
NewHeadPosition(pos, dir) ==
    <<(GetHeadPosition(pos)[1] + dir[1]) % SCREEN_WIDTH,
      (GetHeadPosition(pos)[2] + dir[2]) % SCREEN_HEIGHT>>

\* self.positions[2:]
Slice2(pos) == SubSeq(pos, 3, Len(pos))

SeqRange(s) == {s[i] : i \in 1..Len(s)}

\* fault variant: the collision test looks at positions[1:], neck included
SelfCollision_WithNeck(pos, dir) ==
    NewHeadPosition(pos, dir) \in SeqRange(SubSeq(pos, 2, Len(pos)))

\* fault variant: the collision test leaves out the last segment, which the
\* same move would vacate
SelfCollision_SkipTail(pos, dir) ==
    NewHeadPosition(pos, dir) \in SeqRange(SubSeq(pos, 3, Len(pos) - 1))

\* move(), line 122: new_head_position in self.positions[2:]
SelfCollision(pos, dir) == NewHeadPosition(pos, dir) \in SeqRange(Slice2(pos))

\* move(), line 126: self.positions.insert(0, new_head_position)
Inserted(pos, dir) == <<NewHeadPosition(pos, dir)>> \o pos

\* fault variant: the tail is popped when the list is as long as length
Trimmed_OffByOne(pos, len) == IF Len(pos) >= len THEN SubSeq(pos, 1, Len(pos) - 1) ELSE pos

\* fault variant: the tail is never popped
Trimmed_Never(pos, len) == pos

\* move(), lines 129-130: pop the tail when the list is longer than length
Trimmed(pos, len) == IF Len(pos) > len THEN SubSeq(pos, 1, Len(pos) - 1) ELSE pos

\* fault variant: reset() leaves the direction as it is
StartSnake_KeepDirection ==
    /\ length' = 1
    /\ positions' = <<Center>>
    /\ direction' = direction
    /\ position' = positions'[1]

\* fault variant: reset() leaves the length as it is
StartSnake_KeepLength ==
    /\ length' = length
    /\ positions' = <<Center>>
    /\ direction' = RIGHT
    /\ position' = positions'[1]

\* Snake.__init__ and Snake.reset set the same four attributes
StartSnake ==
    /\ length' = 1
    /\ positions' = <<Center>>
    /\ direction' = RIGHT
    /\ position' = positions'[1]

----------------------------------------------------------------------------
(* main() *)

\* apple = Apple(); snake = Snake(); running = True
Init ==
    /\ apple \in RandomPositions
    /\ length = 1
    /\ positions = <<Center>>
    /\ direction = RIGHT
    /\ position = positions[1]
    /\ events = <<>>
    /\ pc = "loop"
    /\ collided = FALSE

\* while running: handle_keys(snake) is entered and polls the event queue;
\* the content of each event is settled when the for loop reaches it
GetEvents ==
    /\ pc = "loop"
    /\ length <= MaxLength
    /\ events' \in UnreadSeqs
    /\ pc' = "keys"
    /\ collided' = FALSE
    /\ UNCHANGED <<snake, apple>>

\* the same step, with the content of the polled list settled at once
GetEventsQueue ==
    /\ pc = "loop"
    /\ length <= MaxQueueLength
    /\ events' \in EventSeqs
    /\ pc' = "keys"
    /\ collided' = FALSE
    /\ UNCHANGED <<snake, apple>>

\* fault variant: the up and down keys are exchanged
KeyDirection_Swapped(k) ==
    CASE k = K_UP -> DOWN
      [] k = K_DOWN -> UP
      [] k = K_LEFT -> LEFT
      [] k = K_RIGHT -> RIGHT

\* the direction an arrow key stands for, handle_keys lines 179-186
KeyDirection(k) ==
    CASE k = K_UP -> UP
      [] k = K_DOWN -> DOWN
      [] k = K_LEFT -> LEFT
      [] k = K_RIGHT -> RIGHT

\* fault variant: a quit event does not end the process
HandleEvent_QuitIgnored ==
    /\ pc = "keys"
    /\ events # <<>>
    /\ \E event \in Resolve(Head(events)) :
        /\ events' = Tail(events)
        /\ pc' = "keys"
        /\ IF event.type = "KEYDOWN" /\ event.key \in ArrowKeys
           THEN direction' = UpdateDirection(direction, KeyDirection(event.key))
           ELSE UNCHANGED direction
    /\ UNCHANGED <<positions, length, position, apple, collided>>

\* one iteration of the for loop of handle_keys
HandleEvent ==
    /\ pc = "keys"
    /\ events # <<>>
    /\ \E event \in Resolve(Head(events)) :
        /\ events' = Tail(events)
        /\ IF event.type = "QUIT"
           THEN /\ pc' = "exit"
                /\ UNCHANGED direction
           ELSE /\ pc' = "keys"
                /\ IF event.type = "KEYDOWN" /\ event.key \in ArrowKeys
                   THEN direction' = UpdateDirection(direction, KeyDirection(event.key))
                   ELSE UNCHANGED direction
    /\ UNCHANGED <<positions, length, position, apple, collided>>

\* fault variant: handle_keys may return with events of the list unread
HandleKeysReturn_Early ==
    /\ pc = "keys"
    /\ pc' = "move"
    /\ events' = <<>>
    /\ UNCHANGED <<snake, apple, collided>>

\* the for loop of handle_keys is exhausted: handle_keys returns
HandleKeysReturn ==
    /\ pc = "keys"
    /\ events = <<>>
    /\ pc' = "move"
    /\ UNCHANGED <<snake, apple, events, collided>>

\* fault variant: a self-collision ends the game loop
Move_GameOver ==
    /\ pc = "move"
    /\ IF SelfCollision(positions, direction)
       THEN /\ StartSnake
            /\ collided' = TRUE
            /\ pc' = "exit"
       ELSE /\ positions' = Trimmed(Inserted(positions, direction), length)
            /\ position' = NewHeadPosition(positions, direction)
            /\ collided' = FALSE
            /\ pc' = "apple"
            /\ UNCHANGED <<length, direction>>
    /\ UNCHANGED <<apple, events>>

\* fault variant: move() does not store the new head in self.position
Move_PositionStale ==
    /\ pc = "move"
    /\ IF SelfCollision(positions, direction)
       THEN /\ StartSnake
            /\ collided' = TRUE
       ELSE /\ positions' = Trimmed(Inserted(positions, direction), length)
            /\ collided' = FALSE
            /\ UNCHANGED <<length, direction, position>>
    /\ pc' = "apple"
    /\ UNCHANGED <<apple, events>>

\* snake.move()
Move ==
    /\ pc = "move"
    /\ IF SelfCollision(positions, direction)
       THEN /\ StartSnake
            /\ collided' = TRUE
       ELSE /\ positions' = Trimmed(Inserted(positions, direction), length)
            /\ position' = NewHeadPosition(positions, direction)
            /\ collided' = FALSE
            /\ UNCHANGED <<length, direction>>
    /\ pc' = "apple"
    /\ UNCHANGED <<apple, events>>

\* fault variant: any segment of the snake on the apple counts as a hit
AppleHit_AnySegment == apple \in SeqRange(positions)

\* main(), line 200: snake.get_head_position() == apple.position
AppleHit == GetHeadPosition(positions) = apple

\* fault variant: the apple is relocated in every tick
AppleCheck_AlwaysRandomize ==
    /\ pc = "apple"
    /\ IF AppleHit
       THEN length' = length + 1
       ELSE UNCHANGED length
    /\ apple' \in RandomPositions
    /\ pc' = "loop"
    /\ UNCHANGED <<positions, direction, position, events, collided>>

\* main(), lines 200-209: the apple check; drawing changes no game state
AppleCheck ==
    /\ pc = "apple"
    /\ IF AppleHit
       THEN /\ length' = length + 1
            /\ apple' \in RandomPositions
       ELSE UNCHANGED <<length, apple>>
    /\ pc' = "loop"
    /\ UNCHANGED <<positions, direction, position, events, collided>>

Next ==
    \/ GetEvents
    \/ HandleEvent
    \/ HandleKeysReturn
    \/ Move
    \/ AppleCheck

\* the game loop; the content of each polled event is settled when read
Spec == Init /\ [][Next]_vars

NextQueue ==
    \/ GetEventsQueue
    \/ HandleEvent
    \/ HandleKeysReturn
    \/ Move
    \/ AppleCheck

\* the game loop with the polled event list stored in full
SpecQueue == Init /\ [][NextQueue]_vars

NextBoth ==
    \/ GetEvents
    \/ GetEventsQueue
    \/ HandleEvent
    \/ HandleKeysReturn
    \/ Move
    \/ AppleCheck

\* the game loop, polling in either way, and never pausing for ever: main()
\* is one thread that runs each step as soon as the previous one is done
SpecFair == Init /\ [][NextBoth]_vars /\ WF_vars(NextBoth)

----------------------------------------------------------------------------
(* Vocabulary of the properties, stated without the operators of move() *)

\* wrap(cell): independent modulo on each axis
Wrap(c) == <<c[1] % SCREEN_WIDTH, c[2] % SCREEN_HEIGHT>>

\* the component-wise negation of a direction
Opposite(d) ==
    CASE d = UP -> DOWN
      [] d = DOWN -> UP
      [] d = LEFT -> RIGHT
      [] d = RIGHT -> LEFT

\* wrap(head + direction) in the current state
WrappedStep == Wrap(<<positions[1][1] + direction[1], positions[1][2] + direction[2]>>)

\* the new head is an element of positions[2:]
HitsBody == \E i \in 3..Len(positions) : positions[i] = WrappedStep

\* the cell lies on the board and on the grid
OnBoard(c) ==
    /\ c[1] >= 0 /\ c[1] < SCREEN_WIDTH /\ c[1] % GRID_SIZE = 0
    /\ c[2] >= 0 /\ c[2] < SCREEN_HEIGHT /\ c[2] % GRID_SIZE = 0

\* the next event of the list is a press of an arrow key
ArrowPending ==
    /\ pc = "keys"
    /\ events # <<>>
    /\ Head(events).type = "KEYDOWN"
    /\ Head(events).key \in ArrowKeys

----------------------------------------------------------------------------
(* C1: update_direction(R) with current direction D sets the direction to R *)
(* if and only if R is not the negation of D; when R = -D the direction    *)
(* stays D.  Positions and length are unchanged in both cases.             *)
C1_UpdateDirection ==
    [][ArrowPending =>
          LET R == KeyDirection(Head(events).key)
              D == direction
          IN  /\ (direction' = R) <=> (R # Opposite(D))
              /\ (R = Opposite(D)) => (direction' = D)
              /\ positions' = positions
              /\ length' = length]_vars

\* LEFT is the negation of the start direction: the snake faces LEFT only
\* after two accepted requests
C1_Witness == pc = "keys" /\ direction = LEFT /\ events = <<>>

(* C2: in every reachable state every cell of positions has x in           *)
(* [0, SCREEN_WIDTH) and y in [0, SCREEN_HEIGHT), both multiples of        *)
(* GRID_SIZE, also after moves that cross an edge of the board.            *)
C2_PositionsOnBoard == \A i \in 1..Len(positions) : OnBoard(positions[i])

\* the snake has just crossed the top edge: the neck is in row 0 and the
\* head in the last row
C2_Witness ==
    /\ pc = "apple"
    /\ ~collided
    /\ Len(positions) >= 2
    /\ direction = UP
    /\ positions[2][2] = 0
    /\ positions[1][2] = SCREEN_HEIGHT - GRID_SIZE

(* C3: a move() whose new head is not in positions[2:] makes positions     *)
(* the new head followed by the old positions, with the last element       *)
(* dropped if and only if that list is longer than length; direction and   *)
(* length are unchanged.  From the start state one move gives              *)
(* [wrap(center + RIGHT)].                                                 *)
C3_MoveStep ==
    [][(pc = "move" /\ ~HitsBody) =>
          LET full == <<WrappedStep>> \o positions
          IN  /\ positions' = IF Len(full) > length
                              THEN [i \in 1..(Len(full) - 1) |-> full[i]]
                              ELSE full
              /\ direction' = direction
              /\ length' = length
              /\ (positions = <<Center>> /\ length = 1 /\ direction = RIGHT)
                    => positions' = <<Wrap(<<Center[1] + GRID_SIZE, Center[2]>>)>>]_vars

\* a move without collision of a snake of three segments, tail dropped
C3_Witness ==
    /\ pc = "apple"
    /\ ~collided
    /\ Len(positions) = 3
    /\ length = 3

(* C4: a move() whose new head is an element of positions[2:] leaves the   *)
(* snake in the start state: length 1, positions [center], direction       *)
(* RIGHT; the new head is not inserted.                                    *)
C4_CollisionResets ==
    [][(pc = "move" /\ HitsBody) =>
          /\ length' = 1
          /\ positions' = <<<<SCREEN_WIDTH \div 2, SCREEN_HEIGHT \div 2>>>>
          /\ direction' = RIGHT]_vars

\* move() has just taken the reset branch
C4_Witness == pc = "apple" /\ collided

(* C5: the snake is reset or shortened only by a move() whose new head is  *)
(* in positions[2:]; a move that wraps around an edge without such a       *)
(* collision, and every other step, keeps length and never shortens        *)
(* positions.                                                              *)
C5_OnlyCollisionResets ==
    [][/\ (length' < length \/ Len(positions') < Len(positions) \/ (collided' /\ ~collided))
            => (pc = "move" /\ HitsBody)
       /\ (pc = "move" /\ ~HitsBody)
            => (length' = length /\ Len(positions') >= Len(positions))]_vars

\* a snake of three segments has just crossed the right edge and is intact
C5_Witness ==
    /\ pc = "apple"
    /\ ~collided
    /\ Len(positions) >= 3
    /\ positions[1][1] = 0
    /\ positions[2][1] = SCREEN_WIDTH - GRID_SIZE

(* C6: right after move() returns len(positions) = length; at a tick       *)
(* boundary len(positions) <= length <= len(positions) + 1; inside move()  *)
(* the list with the new head inserted is at most length + 1 long.         *)
C6_LengthRelation ==
    /\ (pc = "apple") => (Len(positions) = length)
    /\ (pc = "loop") => (Len(positions) <= length /\ length <= Len(positions) + 1)
    /\ (pc = "move") => (Len(<<WrappedStep>> \o positions) <= length + 1)

\* a tick boundary with growth pending for a snake of two or more segments
C6_Witness ==
    /\ pc = "loop"
    /\ Len(positions) >= 2
    /\ length = Len(positions) + 1

C8_AppleRedrawn ==
    /\ [][(apple' # apple) => (pc = "apple" /\ positions[1] = apple)]_vars
    /\ [](pc = "apple" /\ positions[1] = apple => ENABLED (AppleCheck /\ apple' # apple))

\* the tick has grown the snake and the apple is no longer under the head
C8_Witness ==
    /\ pc = "loop"
    /\ length = Len(positions) + 1
    /\ apple # positions[1]

(* C9: the apple is on a board cell in every reachable state, and a        *)
(* relocation can choose every cell of the board, whatever cells the snake *)
(* occupies.                                                               *)
C9_AppleAnywhere ==
    /\ OnBoard(apple)
    /\ (pc = "apple" /\ positions[1] = apple) =>
          \A cx \in 0..(GRID_WIDTH - 1), cy \in 0..(GRID_HEIGHT - 1) :
              ENABLED (apple' = <<cx * GRID_SIZE, cy * GRID_SIZE>> /\ AppleCheck)

\* the apple has just been relocated onto a body cell of the snake
C9_Witness ==
    /\ pc = "loop"
    /\ length = Len(positions) + 1
    /\ \E i \in 2..Len(positions) : positions[i] = apple

(* C10: inside a tick the pending events are applied one by one in list    *)
(* order and move() starts only when the list is empty; the snake moves    *)
(* exactly once, with the direction left by the events; the apple check    *)
(* follows the move and compares the moved head with the apple as it was   *)
(* before relocation; the next tick starts only after the apple check.     *)
C10_TickOrder ==
    [][/\ (pc' # pc) =>
             <<pc, pc'>> \in {<<"loop", "keys">>, <<"keys", "move">>, <<"keys", "exit">>,
                              <<"move", "apple">>, <<"apple", "loop">>}
       /\ (pc = "keys" /\ pc' = "keys") => (events # <<>> /\ events' = Tail(events))
       /\ ArrowPending =>
             direction' = (IF KeyDirection(Head(events).key) = Opposite(direction)
                           THEN direction
                           ELSE KeyDirection(Head(events).key))
       /\ (pc' = "move") => (pc = "keys" /\ events = <<>> /\ direction' = direction)
       /\ (positions' # positions) =>
             /\ pc = "move" /\ pc' = "apple"
             /\ positions'[1] = (IF HitsBody THEN Center ELSE WrappedStep)
       /\ (pc = "move") => (pc' = "apple" /\ apple' = apple)
       /\ (pc = "apple") =>
             /\ pc' = "loop"
             /\ positions' = positions
             /\ (length' = length + 1) <=> (positions[1] = apple)]_vars

\* two requests were pending in the first tick and both were applied
\* before the move: the snake has left the centre to the left
C10_Witness ==
    /\ pc = "apple"
    /\ length = 1
    /\ direction = LEFT
    /\ positions = <<<<Center[1] - GRID_SIZE, Center[2]>>>>

(* C11: when handle_keys reads a quit event the process ends at once: that *)
(* step changes neither the snake nor the apple, no step is taken after    *)
(* it, and the events behind the quit event stay unread; an arrow key      *)
(* read before it in the same tick is applied.                             *)
C11_QuitFinal ==
    [][/\ (pc = "keys" /\ events # <<>> /\ Head(events).type = "QUIT") =>
             /\ pc' = "exit"
             /\ events' = Tail(events)
             /\ positions' = positions /\ length' = length
             /\ direction' = direction /\ apple' = apple
       /\ pc # "exit"
       /\ (pc' = "exit") => (pc = "keys" /\ events # <<>> /\ Head(events).type = "QUIT")
       /\ ArrowPending =>
             /\ pc' = "keys"
             /\ direction' = (IF KeyDirection(Head(events).key) = Opposite(direction)
                              THEN direction
                              ELSE KeyDirection(Head(events).key))]_vars

\* the process has ended with an arrow key queued behind the quit event
C11_Witness ==
    /\ pc = "exit"
    /\ events # <<>>
    /\ Head(events).type = "KEYDOWN"
    /\ Head(events).key \in ArrowKeys

(* C12: for a snake of two or more segments the new head that move()       *)
(* computes is never the neck positions[1], whatever arrow keys were       *)
(* applied during the tick.                                                *)
C12_NeckUnreachable ==
    (pc = "move" /\ Len(positions) >= 2) => (WrappedStep # positions[2])

\* the direction update_direction(R) leaves in the current state
Requested(R) == IF R = Opposite(direction) THEN direction ELSE R

(* C13: each arrow-key press is forwarded to update_direction with its own *)
(* direction (up, down, left, right); any other key press and any event    *)
(* that is neither a key press nor a quit leaves direction, positions,     *)
(* length and the apple position unchanged.                                *)
C13_InputMapping ==
    [][(pc = "keys" /\ events # <<>>) =>
          LET e == Head(events) IN
          /\ (e.type = "KEYDOWN" /\ e.key = "K_UP") => (direction' = Requested(<<0, -GRID_SIZE>>))
          /\ (e.type = "KEYDOWN" /\ e.key = "K_DOWN") => (direction' = Requested(<<0, GRID_SIZE>>))
          /\ (e.type = "KEYDOWN" /\ e.key = "K_LEFT") => (direction' = Requested(<<-GRID_SIZE, 0>>))
          /\ (e.type = "KEYDOWN" /\ e.key = "K_RIGHT") => (direction' = Requested(<<GRID_SIZE, 0>>))
          /\ (e.type = "OTHER" \/ (e.type = "KEYDOWN" /\ e.key = "K_OTHER")) =>
                /\ direction' = direction
                /\ positions' = positions
                /\ length' = length
                /\ apple' = apple]_vars

\* the down key has been applied and an event that is no key press is next
C13_Witness ==
    /\ pc = "keys"
    /\ direction = DOWN
    /\ events = <<OtherEvent>>

\* a quit event is in the part of the polled list still to iterate
QuitPending == pc = "keys" /\ \E i \in 1..Len(events) : events[i].type = "QUIT"

(* C14: the loop ends only on a quit event: a step leads to the exit only  *)
(* by reading one; in every state before that a further step of the tick   *)
(* is enabled, also after a self-collision or growth (up to the explored   *)
(* length); and once a quit event is in the polled list the process        *)
(* eventually ends.                                                        *)
C14_EndsOnlyOnQuit ==
    /\ [][(pc' = "exit") =>
             /\ pc = "keys" /\ events # <<>>
             /\ Head(events).type \in {"QUIT", "UNREAD"}]_vars
    /\ []((pc # "exit" /\ ~(pc = "loop" /\ length > MaxLength)) => ENABLED NextBoth)
    /\ [](pc = "loop" /\ length <= MaxLength => ENABLED GetEvents)
    /\ (QuitPending ~> (pc = "exit"))

\* a tick that reset the snake is over and the next one can start
C14_Witness ==
    /\ pc = "loop"
    /\ collided
    /\ length <= MaxLength

(* C15: the collision test comes before the tail is trimmed: for a snake   *)
(* of three or more segments a move() whose new head is the cell of the    *)
(* last segment resets the snake, also when no growth is pending and the   *)
(* move would have vacated that cell.                                      *)
C15_TailCollision ==
    [][(/\ pc = "move"
        /\ Len(positions) >= 3
        /\ WrappedStep = positions[Len(positions)]) =>
          /\ collided'
          /\ length' = 1
          /\ positions' = <<Center>>
          /\ direction' = RIGHT]_vars

\* move() is about to step onto the cell of the last segment only, with no
\* growth pending
C15_Witness ==
    /\ pc = "move"
    /\ Len(positions) >= 3
    /\ Len(positions) = length
    /\ WrappedStep = positions[Len(positions)]
    /\ \A i \in 1..(Len(positions) - 1) : positions[i] # WrappedStep

(* C16: in every reachable state the cells of positions are pairwise       *)
(* distinct.                                                               *)
C16_SegmentsDistinct ==
    \A i, j \in 1..Len(positions) : (i # j) => (positions[i] # positions[j])

(* C17, as claimed: a tick in which move() reset the snake ends, after the *)
(* apple check, with length 1, positions [center] and direction RIGHT,     *)
(* wherever the apple is.                                                  *)
C17_FreshAfterReset ==
    (pc = "loop" /\ collided) =>
        (length = 1 /\ positions = <<Center>> /\ direction = RIGHT)

(* C17, amended: a tick in which move() reset the snake ends with          *)
(* positions [center] and direction RIGHT, and with length 1 unless the    *)
(* apple is on the centre cell; then the apple check of that tick makes    *)
(* the length 2.                                                           *)
C17_FreshUnlessAppleAtCenter ==
    [][(pc = "apple" /\ collided) =>
          /\ pc' = "loop"
          /\ positions = <<Center>> /\ positions' = <<Center>>
          /\ direction = RIGHT /\ direction' = RIGHT
          /\ length = 1
          /\ length' = (IF apple = Center THEN 2 ELSE 1)]_vars

\* the tick reset the snake and its apple check has grown it
C17_Witness ==
    /\ pc = "loop"
    /\ collided
    /\ length = 2

(* C18: in every reachable state positions is non-empty and length is at   *)
(* least 1, and the inherited attribute position equals positions[0], in   *)
(* particular after every move() and reset(): get_head_position() is       *)
(* defined and returns the head.                                           *)
C18_HeadDefined ==
    /\ Len(positions) >= 1
    /\ length >= 1
    /\ position = positions[1]

\* move() has just advanced a snake of two or more segments away from the
\* centre
C18_Witness ==
    /\ pc = "apple"
    /\ ~collided
    /\ Len(positions) >= 2
    /\ position # Center
    /\ position = positions[1]

====
